---- MODULE Spec2Model ----
(***************************************************************************)
(* A model of the Hashflow RFQ integration (src/dex/hashflow/hashflow.ts)  *)
(* and of the generic RFQ price validator                                  *)
(* (src/dex/generic-rfq/validators.ts).                                    *)
(*                                                                         *)
(* The specifications of the module:                                       *)
(*   SpecQuote     the price-level curve: computeLevelsQuote and           *)
(*                 computePricesFromLevels applied to bounded inputs;      *)
(*   SpecValid     the bidsLowerThanAsks rule applied to bounded books;    *)
(*   Spec          the caches (restriction hash, blacklist, levels         *)
(*                 snapshot), the clock, one preProcessTransaction task    *)
(*                 and one getLevelsWithCache task, both cut at their      *)
(*                 awaits and running again and again, on few inputs;      *)
(*   SpecTrade     one preProcessTransaction call on every shape of        *)
(*                 request and response;                                   *)
(*   SpecSlippage  one preProcessTransaction call on many amounts.         *)
(***************************************************************************)
EXTENDS Integers, Sequences, FiniteSets, TLC

(***************************************************************************)
(* Bounds of the model.                                                    *)
(***************************************************************************)
\* cumulative level sizes are drawn from 0..MaxLevel
MaxLevel == 2
\* requested amounts are drawn from the halves in 0..MaxAmount
MaxAmount == 3
\* at most MaxBook entries on each side of a price response's book
MaxBook == 2
\* at most MaxAmounts amounts in one computePricesFromLevels call
MaxAmounts == 2
\* token decimals are drawn from 0..MaxDecimals
MaxDecimals == 1
\* the clock stops at MaxTime
MaxTime == 2
\* at most MaxPending cache.del calls, and as many cache.hdel calls, in flight
MaxPending == 1

VARIABLES
    \* ---- SpecQuote: the curve calls ----
    qpc,            \* "quoteInput" | "pricesInput" | "quoted" | "priced"
    priceLevels,    \* PriceLevel[]: the levels argument
    reqBaseAmount,  \* BigNumber | undefined
    reqQuoteAmount, \* BigNumber | undefined
    amounts,        \* BigNumber[]
    side,           \* SwapSide
    decimals,       \* decimals of the output token
    levelsQuote,    \* what computeLevelsQuote returned
    prices,         \* what computePricesFromLevels returned (bigint[])
    \* ---- SpecValid: the price validator ----
    vpc,            \* "input" | "validated"
    values,         \* {bids, asks}: lists of [price, amount] strings
    validated,      \* "none" | "values" (accepted) | "error" (rejected)
    \* ---- Spec, SpecTrade, SpecSlippage: the caches and the clock ----
    now,            \* Date.now(), in ticks
    restrictHash,   \* the hash runtimeMMsRestrictHashMapKey: maker -> createdAt
    blacklistCache, \* the blacklist_<address> keys: key -> {value, expiresAt}
    levelsCache,    \* the 'levels' key: undefined | {makers, expiresAt}
    pendingDel,     \* cache.del('levels') calls in flight
    pendingHdel,    \* cache.hdel calls in flight, each its list of makers
    \* ---- the preProcessTransaction task ----
    tpc,            \* "idle" | "isBlacklisted" | "requestQuote" |
                    \* "setBlacklist" | "restrictMM" | "done"
    req,            \* the arguments of the call
    resp,           \* what api.requestQuote answered
    caught,         \* the error the catch block holds
    hsetValue,      \* the Date.now().toString() restrictMM writes
    rfqRequests,    \* api.requestQuote calls of this attempt
    outcome,        \* what the call returned or threw
    \* ---- the getLevelsWithCache task ----
    ppc,            \* "idle" | "cacheGet" | "hgetAll" | "filter" |
                    \* "getPriceLevels" | "setex" | "done"
    cachedRestrictionUnparsed, \* what hgetAll returned
    parsed,         \* what parseCacheRestrictionAndExpiryIfNeeded returned
                    \* and the hdel calls it made, with its Date.now()
    filteredMakers, \* what getFilteredMarketMakers returned
    fetchedLevels,  \* the levels getLevelsWithCache holds or returned
    \* ---- SpecPools: getPoolIdentifiers and getPricesVolume ----
    gpc,            \* "off" | "input" | "listed" | "priced"
    cachedLevels,   \* what getLevelsWithCache returns to both calls
    srcTok,         \* Token
    destTok,        \* Token
    swapSide,       \* SwapSide
    limitPoolsArg,  \* undefined | {pools}: the limitPools argument
    poolIdentifiers, \* what getPoolIdentifiers returned
    poolPrices,     \* what getPricesVolume returned
    \* ---- history, written by no code ----
    tracked,        \* whether the history is kept in this behaviour
    delOf,          \* of each cache.del in flight, the maker whose
                    \* restrictMM sent it
    invalidated     \* the makers restricted whose cache.del has taken effect

qvars == <<qpc, priceLevels, reqBaseAmount, reqQuoteAmount, amounts, side,
           decimals, levelsQuote, prices>>

vvars == <<vpc, values, validated>>

cvars == <<now, restrictHash, blacklistCache, levelsCache, pendingDel,
           pendingHdel>>

tvars == <<tpc, req, resp, caught, hsetValue, rfqRequests, outcome>>

pvars == <<ppc, cachedRestrictionUnparsed, parsed, filteredMakers,
           fetchedLevels>>

gvars == <<gpc, cachedLevels, srcTok, destTok, swapSide, limitPoolsArg,
           poolIdentifiers, poolPrices>>

hvars == <<tracked, delOf, invalidated>>

vars == <<qvars, vvars, cvars, tvars, pvars, gvars, hvars>>

(***************************************************************************)
(* BigNumber (bignumber.js): an arbitrary-precision decimal.  A value is   *)
(* the reduced fraction n/d, d > 0.  plus, minus and multipliedBy are      *)
(* exact in the library.  undefined is a record of its own.                *)
(***************************************************************************)
RECURSIVE Gcd(_, _)
Gcd(a, b) == IF b = 0 THEN a ELSE Gcd(b, a % b)

Abs(x) == IF x < 0 THEN -x ELSE x

BN(n, d) ==
    LET g == Gcd(Abs(n), d) IN [n |-> n \div g, d |-> d \div g]

undefined == [undefined |-> TRUE]

IsDefined(x) == "n" \in DOMAIN x

BN_0 == BN(0, 1)
BN_1 == BN(1, 1)

plus(a, b) == BN(a.n * b.d + b.n * a.d, a.d * b.d)
minus(a, b) == BN(a.n * b.d - b.n * a.d, a.d * b.d)
multipliedBy(a, b) == BN(a.n * b.n, a.d * b.d)
lt(a, b) == a.n * b.d < b.n * a.d
lte(a, b) == a.n * b.d <= b.n * a.d
gt(a, b) == lt(b, a)
gte(a, b) == lte(b, a)
isZero(a) == a.n = 0

\* dividedBy rounds the quotient to 20 decimal places.  Every divisor of the
\* model is a positive price with numerator 2^i 5^j and every dividend has a
\* denominator 2^i 5^j with few digits, so the quotient is a terminating
\* decimal of fewer than 20 places and the library returns it exactly.
dividedBy(a, b) == BN(a.n * b.d, a.d * b.n)

RECURSIVE Pow10(_)
Pow10(k) == IF k = 0 THEN 1 ELSE 10 * Pow10(k - 1)

\* getBigNumberPow(decimals) = 10^decimals
getBigNumberPow(k) == BN(Pow10(k), 1)

\* BigInt(x.toFixed(0)) for x >= 0: toFixed rounds to 0 decimal places with the
\* library's default ROUNDING_MODE, ROUND_HALF_UP.
toFixed0(x) == (2 * x.n + x.d) \div (2 * x.d)

(***************************************************************************)
(* computeLevelsQuote                                                      *)
(***************************************************************************)
\* a bug to tell from the code: the whole tier is quoted, not the part of it
\* the request takes
quoteAmountWholeTier(quote, reqBase, nextLevel) ==
    plus(quote.quoteAmount,
         multipliedBy(minus(nextLevel.level, quote.baseAmount),
                      nextLevel.price))

\* const quoteAmount: the quote of a base request that ends inside nextLevel
quoteAmountIn(quote, reqBase, nextLevel) ==
    plus(quote.quoteAmount,
         multipliedBy(minus(reqBase, quote.baseAmount), nextLevel.price))

\* const baseAmount: the base of a quote request that ends inside nextLevel
baseAmountIn(quote, reqQuote, nextLevel) ==
    plus(quote.baseAmount,
         dividedBy(minus(reqQuote, quote.quoteAmount), nextLevel.price))

\* a bug to tell from the code: the cumulative quote is not carried over to
\* the next tier
advanceStaleQuote(quote, nextLevel, nextLevelQuote) ==
    [baseAmount |-> nextLevel.level, quoteAmount |-> quote.quoteAmount]

\* quote.baseAmount = nextLevel.level; quote.quoteAmount = nextLevelQuote
advance(quote, nextLevel, nextLevelQuote) ==
    [baseAmount |-> nextLevel.level, quoteAmount |-> nextLevelQuote]

\* a bug to tell from the code: past the last level the loop goes on at the
\* last level's price instead of returning undefined
RECURSIVE LevelsLoopExtrapolating(_, _, _, _, _)
LevelsLoopExtrapolating(levels, i, quote, reqBase, reqQuote) ==
    IF i > Len(levels)
    THEN IF IsDefined(reqBase)
         THEN quoteAmountIn(quote, reqBase, levels[Len(levels)])
         ELSE baseAmountIn(quote, reqQuote, levels[Len(levels)])
    ELSE
        LET nextLevel == levels[i]
            nextLevelDepth == minus(nextLevel.level, levels[i - 1].level)
            nextLevelQuote ==
                plus(quote.quoteAmount,
                     multipliedBy(nextLevelDepth, nextLevel.price))
        IN  IF IsDefined(reqBase) /\ lte(reqBase, nextLevel.level)
            THEN quoteAmountIn(quote, reqBase, nextLevel)
            ELSE IF IsDefined(reqQuote) /\ lte(reqQuote, nextLevelQuote)
            THEN baseAmountIn(quote, reqQuote, nextLevel)
            ELSE LevelsLoopExtrapolating(levels, i + 1,
                     advance(quote, nextLevel, nextLevelQuote),
                     reqBase, reqQuote)

\* the for loop of computeLevelsQuote from index i (1-based: i = 2 is the
\* code's i = 1), quote being the cumulative {baseAmount, quoteAmount}
RECURSIVE LevelsLoop(_, _, _, _, _)
LevelsLoop(levels, i, quote, reqBase, reqQuote) ==
    IF i > Len(levels) THEN undefined
    ELSE
        LET nextLevel == levels[i]
            nextLevelDepth == minus(nextLevel.level, levels[i - 1].level)
            nextLevelQuote ==
                plus(quote.quoteAmount,
                     multipliedBy(nextLevelDepth, nextLevel.price))
        IN  IF IsDefined(reqBase) /\ lte(reqBase, nextLevel.level)
            THEN quoteAmountIn(quote, reqBase, nextLevel)
            ELSE IF IsDefined(reqQuote) /\ lte(reqQuote, nextLevelQuote)
            THEN baseAmountIn(quote, reqQuote, nextLevel)
            ELSE LevelsLoop(levels, i + 1,
                            advance(quote, nextLevel, nextLevelQuote),
                            reqBase, reqQuote)

computeLevelsQuote(levels, reqBase, reqQuote) ==
    IF IsDefined(reqBase) /\ IsDefined(reqQuote) THEN undefined
    ELSE IF Len(levels) = 0 THEN undefined
    ELSE
        LET quote == [baseAmount |-> levels[1].level,
                      quoteAmount |->
                          multipliedBy(levels[1].level, levels[1].price)]
        IN  IF \/ IsDefined(reqBase) /\ lt(reqBase, quote.baseAmount)
               \/ IsDefined(reqQuote) /\ lt(reqQuote, quote.quoteAmount)
            THEN undefined
            ELSE LevelsLoop(levels, 2, quote, reqBase, reqQuote)

(***************************************************************************)
(* computePricesFromLevels                                                 *)
(***************************************************************************)
\* levels.unshift({level: '0', price: firstLevel.price}) when the first level
\* is above 0
WithZeroLevel(levels) ==
    IF Len(levels) > 0 /\ gt(levels[1].level, BN_0)
    THEN <<[level |-> BN_0, price |-> levels[1].price]>> \o levels
    ELSE levels

levelsOutput(levels, amount, sd) ==
    IF sd = "SELL" THEN computeLevelsQuote(levels, amount, undefined)
    ELSE computeLevelsQuote(levels, undefined, amount)

\* the loop over amounts.entries() from index i; outputs starts filled with
\* BN_0 and the loop breaks at the first unfillable amount
RECURSIVE OutputsLoop(_, _, _, _, _)
OutputsLoop(levels, amts, sd, i, outputs) ==
    IF i > Len(amts) THEN outputs
    ELSE IF isZero(amts[i])
    THEN OutputsLoop(levels, amts, sd, i + 1, [outputs EXCEPT ![i] = BN_0])
    ELSE
        LET output == levelsOutput(levels, amts[i], sd)
        IN  IF ~IsDefined(output) THEN outputs
            ELSE OutputsLoop(levels, amts, sd, i + 1,
                             [outputs EXCEPT ![i] = output])

computePricesFromLevels(amts, levels0, sd, dec) ==
    LET levels == WithZeroLevel(levels0)
        outputs == OutputsLoop(levels, amts, sd, 1,
                               [i \in 1..Len(amts) |-> BN_0])
    IN  [i \in 1..Len(amts) |->
            toFixed0(multipliedBy(outputs[i], getBigNumberPow(dec)))]

(***************************************************************************)
(* validators.ts: the bidsLowerThanAsks rule.  A string is the sequence of *)
(* its UTF-16 code units; a BigNumber of this part is the sequence of its  *)
(* decimal digits without leading zeros (a non-negative integer).          *)
(***************************************************************************)
Chr0 == 48
ChrDot == 46
ChrPlus == 43
ChrE == 101

\* the string of a sequence of decimal digits
Str(digits) == [i \in 1..Len(digits) |-> Chr0 + digits[i]]

RECURSIVE StripLeadingZeros(_)
StripLeadingZeros(ds) ==
    IF Len(ds) > 1 /\ ds[1] = 0 THEN StripLeadingZeros(Tail(ds)) ELSE ds

RECURSIVE StripTrailingZeros(_)
StripTrailingZeros(ds) ==
    IF Len(ds) > 0 /\ ds[Len(ds)] = 0
    THEN StripTrailingZeros(SubSeq(ds, 1, Len(ds) - 1))
    ELSE ds

RECURSIVE DigitsOf(_)
DigitsOf(n) == IF n < 10 THEN <<n>> ELSE Append(DigitsOf(n \div 10), n % 10)

\* new BigNumber(str) of a string of decimal digits
BigNumberOf(str) == StripLeadingZeros([i \in 1..Len(str) |-> str[i] - Chr0])

\* digit-wise comparison of two digit sequences of one length
RECURSIVE DigitsLess(_, _)
DigitsLess(a, b) ==
    IF a = <<>> THEN FALSE
    ELSE IF a[1] # b[1] THEN a[1] < b[1]
    ELSE DigitsLess(Tail(a), Tail(b))

\* BigNumber.lte, BigNumber.gte: numeric comparison
bnLte(a, b) ==
    \/ Len(a) < Len(b)
    \/ Len(a) = Len(b) /\ ~DigitsLess(b, a)

bnGte(a, b) == bnLte(b, a)

\* BigNumber.prototype.valueOf returns the number's string: plain digits below
\* 1e21 (TO_EXP_POS = 21), exponential notation from there on
valueOf(a) ==
    IF Len(a) <= 21 THEN Str(a)
    ELSE LET frac == StripTrailingZeros(Tail(a))
         IN  Str(<<a[1]>>)
             \o (IF frac = <<>> THEN <<>> ELSE <<ChrDot>> \o Str(frac))
             \o <<ChrE, ChrPlus>> \o Str(DigitsOf(Len(a) - 1))

\* the < of two strings: by code units, a proper prefix first
RECURSIVE StringLess(_, _)
StringLess(x, y) ==
    IF y = <<>> THEN FALSE
    ELSE IF x = <<>> THEN TRUE
    ELSE IF x[1] # y[1] THEN x[1] < y[1]
    ELSE StringLess(Tail(x), Tail(y))

\* maxBid < minAsk on two BigNumber objects: the operands are converted with
\* valueOf, which gives two strings, and two strings compare as strings
ObjectsLess(a, b) == StringLess(valueOf(a), valueOf(b))

\* new BigNumber(0) and new BigNumber('123456789012345678901234567890')
maxBidInit == <<0>>
minAskInit ==
    <<1, 2, 3, 4, 5, 6, 7, 8, 9, 0, 1, 2, 3, 4, 5, 6, 7, 8, 9, 0,
      1, 2, 3, 4, 5, 6, 7, 8, 9, 0>>

\* entries.map(numbers => new BigNumber(numbers[0])).reduce(..., init) from
\* entry i on
RECURSIVE reduceMax(_, _, _)
reduceMax(entries, i, previousValue) ==
    IF i > Len(entries) THEN previousValue
    ELSE LET currentValue == BigNumberOf(entries[i][1])
         IN  reduceMax(entries, i + 1,
                       IF bnGte(currentValue, previousValue)
                       THEN currentValue ELSE previousValue)

RECURSIVE reduceMin(_, _, _)
reduceMin(entries, i, previousValue) ==
    IF i > Len(entries) THEN previousValue
    ELSE LET currentValue == BigNumberOf(entries[i][1])
         IN  reduceMin(entries, i + 1,
                       IF bnLte(currentValue, previousValue)
                       THEN currentValue ELSE previousValue)

\* the rule's validate: "values" when the entry is accepted, "error" when it
\* is rejected with 'the maximum bid is higher than minimum ask'
bidsLowerThanAsks(v) ==
    IF Len(v.bids) = 0 \/ Len(v.asks) = 0 THEN "values"
    ELSE LET maxBid == reduceMax(v.bids, 1, maxBidInit)
             minAsk == reduceMin(v.asks, 1, minAskInit)
         IN  IF ObjectsLess(maxBid, minAsk) THEN "values" ELSE "error"

(***************************************************************************)
(* hashflow.ts: strings, cache keys and constants.  A string is the        *)
(* sequence of its UTF-16 code units.                                      *)
(***************************************************************************)
toLowerCase(s) ==
    [i \in 1..Len(s) |-> IF 65 <= s[i] /\ s[i] <= 90 THEN s[i] + 32 ELSE s[i]]

\* 'blacklist_'
BlacklistPrefix == <<98, 108, 97, 99, 107, 108, 105, 115, 116, 95>>

\* a bug to tell from the code: the key keeps the address's letter case
getBlackListKeyCaseKept(address) == BlacklistPrefix \o address

getBlackListKey(address) == toLowerCase(BlacklistPrefix \o address)

\* the native token's sentinel address and the zero address the protocol
\* expects for it, cut to two characters: 'ee' and '00'
ETHER_ADDRESS == <<101, 101>>
ZERO_ADDRESS == <<48, 48>>

normalizeToken(address) ==
    IF toLowerCase(address) = ETHER_ADDRESS THEN ZERO_ADDRESS
    ELSE toLowerCase(address)

\* the clock counts ticks; the three time-to-live constants of ./constants
\* are given in ticks
HASHFLOW_MM_RESTRICT_TTL_S == 1
HASHFLOW_BLACKLIST_TTL_S == 2
PRICE_LEVELS_TTL_SECONDS == 1

\* the makers of the directory: 'm1', 'M2' and 'm3'
MM1 == <<109, 49>>
MM2 == <<77, 50>>
MM3 == <<109, 51>>
Makers == {MM1, MM2, MM3}

\* dexHelper.config.data.hashFlowDisabledMMs
disabledMMs == {MM3}

(***************************************************************************)
(* The cache service: keys with a time to live, and one hash.              *)
(***************************************************************************)
\* cache.setex: value under key until ttl ticks from t on
cacheSetex(c, key, ttl, value, t) ==
    [k \in DOMAIN c \cup {key} |->
        IF k = key THEN [value |-> value, expiresAt |-> t + ttl] ELSE c[k]]

\* the entries of c the cache still holds at time t
cacheAlive(c, t) == [k \in {x \in DOMAIN c : c[x].expiresAt > t} |-> c[k]]

\* cache.hset on the restriction hash
hset(h, field, value) ==
    [f \in DOMAIN h \cup {field} |-> IF f = field THEN value ELSE h[f]]

\* cache.hdel on the restriction hash
hdel(h, fields) == [f \in DOMAIN h \ fields |-> h[f]]

\* Date.now().toString() and the +createdAt that reads it back
toString(n) == Str(DigitsOf(n))

RECURSIVE ToNumber(_)
ToNumber(str) ==
    IF str = <<>> THEN 0
    ELSE 10 * ToNumber(SubSeq(str, 1, Len(str) - 1)) + (str[Len(str)] - Chr0)

(***************************************************************************)
(* parseCacheRestrictionAndExpiryIfNeeded                                  *)
(***************************************************************************)
\* a bug to tell from the code: the comparison is turned around
isExpiredTurned(createdAt, t) ==
    ToNumber(createdAt) > t - HASHFLOW_MM_RESTRICT_TTL_S

\* +createdAt < expirationThreshold, at Date.now() = t
isExpired(createdAt, t) ==
    ToNumber(createdAt) < t - HASHFLOW_MM_RESTRICT_TTL_S

\* what the call returns (restrictedMMs) and the hdel calls it makes, each
\* with its list of keys
parseCacheRestrictionAndExpiryIfNeeded(cachedValues, t) ==
    LET toDelete == {mm \in DOMAIN cachedValues :
                        isExpired(cachedValues[mm], t)}
    IN  [restrictedMMs |-> DOMAIN cachedValues \ toDelete,
         hdelCalls |-> IF toDelete # {} THEN <<toDelete>> ELSE <<>>]

\* a bug to tell from the code: a maker is dropped only when it is both
\* disabled and restricted
filterMakersBoth(makers, runtimeRestrictedMMs) ==
    {mm \in makers : ~(mm \in disabledMMs /\ mm \in runtimeRestrictedMMs)}

\* makers.filter(mm => !(disabledMMs.has(mm) || runtimeRestrictedMMs.has(mm)))
filterMakers(makers, runtimeRestrictedMMs) ==
    {mm \in makers : ~(mm \in disabledMMs \/ mm \in runtimeRestrictedMMs)}

(***************************************************************************)
(* preProcessTransaction: what runs between two awaits                     *)
(***************************************************************************)
\* a bug to tell from the code: the key looked up keeps the address's letter
\* case
isBlacklistedCaseKept(c, txOrigin) ==
    LET key == BlacklistPrefix \o txOrigin
    IN  key \in DOMAIN c /\ c[key].value = "blacklisted"

\* isBlacklisted: cache.get(...) === 'blacklisted'
isBlacklisted(c, txOrigin) ==
    LET key == getBlackListKey(txOrigin)
    IN  key \in DOMAIN c /\ c[key].value = "blacklisted"

\* thrown values: an Error has a name and a message, of which the model keeps
\* whether it ends with 'User is restricted from using Hashflow'
Error(name, endsWithSignal) ==
    [isError |-> TRUE, name |-> name, endsWithSignal |-> endsWithSignal]

\* a thrown value that is no Error
NonError == [isError |-> FALSE, name |-> "value", endsWithSignal |-> FALSE]

NoError == [isError |-> FALSE, name |-> "none", endsWithSignal |-> FALSE]

\* rfq.quoteData is an object, not undefined
HasQuoteData(rfq) == "rfqType" \in DOMAIN rfq.quoteData

\* a bug to tell from the code: the gas estimate is not looked at
rfqShapeErrorNoGas(rfq) ==
    IF rfq.status # "success" THEN Error("RfqError", FALSE)
    ELSE IF ~HasQuoteData(rfq) THEN Error("RfqError", FALSE)
    ELSE IF rfq.signature = "" THEN Error("RfqError", FALSE)
    ELSE IF rfq.quoteData.rfqType # "RFQT" THEN Error("RfqError", FALSE)
    ELSE NoError

\* the if / else-if chain on the response.  None of its messages ends with
\* the signal: the first ends with JSON.stringify(rfq), the others with a
\* fixed text.  A missing signature is undefined or ''; a missing gas
\* estimate is undefined or 0.
rfqShapeError(rfq) ==
    IF rfq.status # "success" THEN Error("RfqError", FALSE)
    ELSE IF ~HasQuoteData(rfq) THEN Error("RfqError", FALSE)
    ELSE IF rfq.signature = "" THEN Error("RfqError", FALSE)
    ELSE IF rfq.gasEstimate = 0 THEN Error("RfqError", FALSE)
    ELSE IF rfq.quoteData.rfqType # "RFQT" THEN Error("RfqError", FALSE)
    ELSE NoError

\* the two asserts on the returned token addresses
tokenAssertError(quoteData, normalizedSrcToken, normalizedDestToken) ==
    IF quoteData.baseToken # normalizedSrcToken
    THEN Error("AssertionError", FALSE)
    ELSE IF quoteData.quoteToken # normalizedDestToken
    THEN Error("AssertionError", FALSE)
    ELSE NoError

\* BigInt(rfq.quoteData.quoteExpiry) throws a TypeError on undefined
expiryError(quoteData) ==
    IF ~IsDefined(quoteData.quoteExpiry) THEN Error("TypeError", FALSE)
    ELSE NoError

BI_MAX_UINT256 == [maxUint256 |-> TRUE]

\* const minDeadline = expiryAsBigInt > 0 ? expiryAsBigInt : BI_MAX_UINT256
minDeadline(quoteData) ==
    IF gt(quoteData.quoteExpiry, BN_0)
    THEN [value |-> toFixed0(quoteData.quoteExpiry)]
    ELSE BI_MAX_UINT256

\* BigInt(new BigNumber(destAmount.toString()).times(slippageFactor).toFixed(0))
sellThreshold(destAmount, slippageFactor) ==
    toFixed0(multipliedBy(BN(destAmount, 1), slippageFactor))

\* BigInt(slippageFactor.times(srcAmount.toString()).toFixed(0))
buyThreshold(srcAmount, slippageFactor) ==
    toFixed0(multipliedBy(slippageFactor, BN(srcAmount, 1)))

\* the slippage check
slippageError(sd, quoteData, srcAmount, destAmount, slippageFactor) ==
    IF sd = "SELL"
    THEN IF quoteData.quoteTokenAmount < sellThreshold(destAmount, slippageFactor)
         THEN Error("SlippageCheckError", FALSE)
         ELSE NoError
    ELSE IF quoteData.quoteTokenAmount < destAmount
         THEN Error("SlippageCheckError", FALSE)
         ELSE IF quoteData.baseTokenAmount > buyThreshold(srcAmount, slippageFactor)
         THEN Error("SlippageCheckError", FALSE)
         ELSE NoError

\* the try block from the response (or the rejection) of api.requestQuote on:
\* the error it throws, or NoError when it returns
tryError(r, rs) ==
    IF rs.threw THEN rs.e
    ELSE LET shape == rfqShapeError(rs.rfq)
         IN  IF shape # NoError THEN shape
             ELSE LET qd == rs.rfq.quoteData
                      tok == tokenAssertError(qd, normalizeToken(r.srcToken),
                                              normalizeToken(r.destToken))
                  IN  IF tok # NoError THEN tok
                      ELSE IF expiryError(qd) # NoError THEN expiryError(qd)
                      ELSE slippageError(r.side, qd, r.srcAmount,
                                         r.destAmount, r.slippageFactor)

\* what the try block returns
tryReturn(r, rs) ==
    [kind |-> "returned", at |-> "return",
     data |-> [mm |-> r.data.mm, quoteData |-> rs.rfq.quoteData,
               signature |-> rs.rfq.signature,
               gasEstimate |-> rs.rfq.gasEstimate],
     deadline |-> minDeadline(rs.rfq.quoteData)]

\* a bug to tell from the code: every Error blacklists the trade origin
catchBranchAnyError(e) ==
    IF e.isError THEN "setBlacklist" ELSE "restrictMM"

\* the catch block's choice
catchBranch(e) ==
    IF e.isError /\ e.endsWithSignal THEN "setBlacklist" ELSE "restrictMM"

(***************************************************************************)
(* getPoolIdentifiers and getPricesVolume.  What getLevelsWithCache gives   *)
(* is the list of its makers in the order of Object.keys, each with its    *)
(* entries {pair, levels}; a token is {address, decimals}.                 *)
(***************************************************************************)
\* '_'
ChrUnderscore == 95

\* this.dexKey: 'H'
dexKey == <<72>>

\* `${srcAddress}_${destAddress}`.toLowerCase()
getPairName(srcAddress, destAddress) ==
    toLowerCase(srcAddress \o <<ChrUnderscore>> \o destAddress)

getIdentifierPrefix(srcAddress, destAddress) ==
    toLowerCase(dexKey \o <<ChrUnderscore>>
                \o getPairName(srcAddress, destAddress))

getPoolIdentifier(srcAddress, destAddress, mm) ==
    toLowerCase(getIdentifierPrefix(srcAddress, destAddress)
                \o <<ChrUnderscore>> \o mm)

\* normalizeToken keeps the decimals of the token;
\* pairs.some(p => src === p.baseToken.toLowerCase() &&
\*                 dest === p.quoteToken.toLowerCase())
getPoolIdentifiers(levelsOfMakers, srcToken, destToken) ==
    LET normalizedSrcToken ==
            [address |-> normalizeToken(srcToken.address),
             decimals |-> srcToken.decimals]
        normalizedDestToken ==
            [address |-> normalizeToken(destToken.address),
             decimals |-> destToken.decimals]
        publishes(m) ==
            \E i \in 1..Len(m.entries) :
                /\ normalizedSrcToken.address
                       = toLowerCase(m.entries[i].pair.baseToken)
                /\ normalizedDestToken.address
                       = toLowerCase(m.entries[i].pair.quoteToken)
        listed == SelectSeq(levelsOfMakers, publishes)
    IN  IF normalizedSrcToken.address = normalizedDestToken.address
        THEN <<>>
        ELSE [i \in 1..Len(listed) |->
                 getPoolIdentifier(normalizedSrcToken.address,
                                   normalizedDestToken.address, listed[i].mm)]

\* p.split(separator).pop(): what follows the last of the occurrences of the
\* separator found from the left, the whole of p when there is none; i is
\* the place looked at and start the place after the last occurrence
RECURSIVE splitPop(_, _, _, _)
splitPop(p, separator, i, start) ==
    IF i + Len(separator) - 1 > Len(p) THEN SubSeq(p, start, Len(p))
    ELSE IF SubSeq(p, i, i + Len(separator) - 1) = separator
    THEN splitPop(p, separator, i + Len(separator), i + Len(separator))
    ELSE splitPop(p, separator, i + 1, start)

\* pools.map(p => p.split(`${prefix}_`).pop())
marketMakersToUse(pools, prefix) ==
    {splitPop(pools[i], prefix \o <<ChrUnderscore>>, 1, 1) :
        i \in 1..Len(pools)}

\* levelsMap[mm]?.find(e => `${e.pair.baseToken}_${e.pair.quoteToken}` ===
\* this.getPairName(src, dest)): the place of the first entry of the pair,
\* 0 when there is none
findEntry(entries, srcAddress, destAddress) ==
    LET hits == {i \in 1..Len(entries) :
                    entries[i].pair.baseToken \o <<ChrUnderscore>>
                            \o entries[i].pair.quoteToken
                        = getPairName(srcAddress, destAddress)}
    IN  IF hits = {} THEN 0
        ELSE CHOOSE i \in hits : \A j \in hits : i <= j

\* the PoolPrices of one maker.  computePricesFromLevels is called twice on
\* the same levels array, which the first call may have given a zero level.
poolPricesOf(mm, levels, amts, sd, normalizedSrcToken, normalizedDestToken) ==
    LET divider == getBigNumberPow(IF sd = "SELL"
                                   THEN normalizedSrcToken.decimals
                                   ELSE normalizedDestToken.decimals)
        amountsRaw == [i \in 1..Len(amts) |->
                          dividedBy(BN(amts[i], 1), divider)]
        dec == IF sd = "SELL" THEN normalizedDestToken.decimals
               ELSE normalizedSrcToken.decimals
    IN  [data |-> [mm |-> mm],
         unit |-> computePricesFromLevels(<<BN_1>>, levels, sd, dec)[1],
         prices |-> computePricesFromLevels(amountsRaw, WithZeroLevel(levels),
                                            sd, dec),
         poolIdentifier |-> getPoolIdentifier(normalizedSrcToken.address,
                                              normalizedDestToken.address, mm)]

\* getPricesVolume: null, or the PoolPrices of the makers kept
getPricesVolume(levelsOfMakers, srcToken, destToken, amts, sd, limitPools) ==
    LET normalizedSrcToken ==
            [address |-> normalizeToken(srcToken.address),
             decimals |-> srcToken.decimals]
        normalizedDestToken ==
            [address |-> normalizeToken(destToken.address),
             decimals |-> destToken.decimals]
        src == normalizedSrcToken.address
        dest == normalizedDestToken.address
        prefix == getIdentifierPrefix(src, dest)
        pools == IF limitPools = undefined
                 THEN getPoolIdentifiers(levelsOfMakers, srcToken, destToken)
                 ELSE limitPools.pools
        toUse == marketMakersToUse(pools, prefix)
        inUse(m) == m.mm \in toUse
        levelsMap == SelectSeq(levelsOfMakers, inUse)
        hasEntry(m) == findEntry(m.entries, src, dest) # 0
        levelEntries == SelectSeq(levelsMap, hasEntry)
    IN  IF src = dest THEN [isNull |-> TRUE, prices |-> <<>>]
        ELSE [isNull |-> FALSE,
              prices |->
                [i \in 1..Len(levelEntries) |->
                    poolPricesOf(
                        levelEntries[i].mm,
                        levelEntries[i].entries[
                            findEntry(levelEntries[i].entries, src, dest)
                        ].levels,
                        amts, sd, normalizedSrcToken, normalizedDestToken)]]

(***************************************************************************)
(* The state of each part before its first call.  A specification that     *)
(* leaves a part out starts it here and never moves it.                    *)
(***************************************************************************)
QuoteOff ==
    /\ qpc = "off" /\ priceLevels = <<>> /\ reqBaseAmount = undefined
    /\ reqQuoteAmount = undefined /\ amounts = <<>> /\ side = "SELL"
    /\ decimals = 0 /\ levelsQuote = undefined /\ prices = <<>>

ValidOff ==
    /\ vpc = "off" /\ values = [bids |-> <<>>, asks |-> <<>>]
    /\ validated = "none"

\* a hash without fields, a cache without keys
EmptyHash == [f \in {} |-> <<>>]
EmptyCache == [k \in {} |-> [value |-> "", expiresAt |-> 0]]

CachesEmpty ==
    /\ now = 0 /\ restrictHash = EmptyHash /\ blacklistCache = EmptyCache
    /\ levelsCache = undefined /\ pendingDel = 0 /\ pendingHdel = <<>>

NoResponse == [threw |-> FALSE, e |-> NoError, rfq |-> undefined]
NoOutcome == [kind |-> "none", at |-> "none"]

TradeLocalsReset ==
    /\ req = undefined /\ resp = NoResponse /\ caught = NoError
    /\ hsetValue = <<>> /\ rfqRequests = 0 /\ outcome = NoOutcome

TradeIdle == tpc = "idle" /\ TradeLocalsReset

PricingLocalsReset ==
    /\ cachedRestrictionUnparsed = EmptyHash /\ parsed = undefined
    /\ filteredMakers = {} /\ fetchedLevels = undefined

PricingIdle == ppc = "idle" /\ PricingLocalsReset

\* tokens and levels of no call
PoolsOff ==
    /\ gpc = "off" /\ cachedLevels = <<>>
    /\ srcTok = [address |-> <<>>, decimals |-> 0]
    /\ destTok = [address |-> <<>>, decimals |-> 0]
    /\ swapSide = "SELL" /\ limitPoolsArg = undefined
    /\ poolIdentifiers = <<>>
    /\ poolPrices = [isNull |-> TRUE, prices |-> <<>>]

\* of the makers in set, those whose entry in the raw restriction entries is
\* within the restriction window at time t
inWindow(set, raw, t) ==
    {mm \in set \cap DOMAIN raw :
        ~(ToNumber(raw[mm]) < t - HASHFLOW_MM_RESTRICT_TTL_S)}

NoHistory == tracked = FALSE /\ delOf = <<>> /\ invalidated = {}

\* the oldest cache.del in flight has taken effect, or has failed
DelSettled(applied, raw, t) ==
    /\ delOf' = IF tracked THEN Tail(delOf) ELSE delOf
    /\ invalidated' = IF tracked /\ applied
                      THEN inWindow(invalidated \cup {Head(delOf)}, raw, t)
                      ELSE invalidated
    /\ UNCHANGED tracked

(***************************************************************************)
(* Inputs of SpecQuote.                                                    *)
(***************************************************************************)
\* prices per unit: 1/2, 2 and 5/2
PriceSet == {BN(1, 2), BN(2, 1), BN(5, 2)}

\* requested amounts: the halves 0, 1/2, 1, ... MaxAmount
AmountSet == {BN(k, 2) : k \in 0..(2 * MaxAmount)}

RECURSIVE SeqsUpTo(_, _)
SeqsUpTo(S, k) ==
    IF k = 0 THEN {<<>>}
    ELSE LET shorter == SeqsUpTo(S, k - 1)
         IN  shorter \cup
             {Append(s, x) : s \in {t \in shorter : Len(t) = k - 1}, x \in S}

\* level lists as a maker publishes them: strictly increasing cumulative
\* sizes, positive prices
RECURSIVE LevelListsFrom(_)
LevelListsFrom(lo) ==
    {<<>>} \cup
    UNION {{<<[level |-> BN(l, 1), price |-> p]>> \o rest :
               p \in PriceSet, rest \in LevelListsFrom(l + 1)} :
           l \in lo..MaxLevel}

LevelLists == LevelListsFrom(0)

\* getPricesVolume hands over the amounts of a pricing request, which the
\* framework supplies in non-decreasing order
NonDecreasing(amts) ==
    \A i \in 1..Len(amts) : \A j \in i..Len(amts) : lte(amts[i], amts[j])

AmountLists == {a \in SeqsUpTo(AmountSet, MaxAmounts) : NonDecreasing(a)}

\* one call per behaviour: either computeLevelsQuote directly, with its two
\* optional requests, or computePricesFromLevels
InitQuote ==
    /\ ValidOff /\ CachesEmpty /\ TradeIdle /\ PricingIdle /\ PoolsOff
    /\ NoHistory
    /\ priceLevels \in LevelLists
    /\ levelsQuote = undefined
    /\ prices = <<>>
    /\ \/ /\ qpc = "quoteInput"
          /\ \E a \in AmountSet :
                \/ reqBaseAmount = a /\ reqQuoteAmount = undefined
                \/ reqBaseAmount = undefined /\ reqQuoteAmount = a
                \/ reqBaseAmount = a /\ reqQuoteAmount = a
          /\ amounts = <<>>
          /\ side = "SELL"
          /\ decimals = 0
       \/ /\ qpc = "pricesInput"
          /\ reqBaseAmount = undefined
          /\ reqQuoteAmount = undefined
          /\ amounts \in AmountLists
          /\ side \in {"SELL", "BUY"}
          /\ decimals \in 0..MaxDecimals

CallComputeLevelsQuote ==
    /\ qpc = "quoteInput"
    /\ qpc' = "quoted"
    /\ levelsQuote' =
           computeLevelsQuote(priceLevels, reqBaseAmount, reqQuoteAmount)
    /\ UNCHANGED <<priceLevels, reqBaseAmount, reqQuoteAmount, amounts, side,
                   decimals, prices>>
    /\ UNCHANGED <<vvars, cvars, tvars, pvars, gvars, hvars>>

\* the call mutates its levels argument (unshift)
CallComputePricesFromLevels ==
    /\ qpc = "pricesInput"
    /\ qpc' = "priced"
    /\ prices' = computePricesFromLevels(amounts, priceLevels, side, decimals)
    /\ priceLevels' = WithZeroLevel(priceLevels)
    /\ UNCHANGED <<reqBaseAmount, reqQuoteAmount, amounts, side, decimals,
                   levelsQuote>>
    /\ UNCHANGED <<vvars, cvars, tvars, pvars, gvars, hvars>>

NextQuote == CallComputeLevelsQuote \/ CallComputePricesFromLevels

SpecQuote == InitQuote /\ [][NextQuote]_vars

\* the price strings of the books: "8", "9", "10", "09", "100"
PriceStrings ==
    {Str(<<8>>), Str(<<9>>), Str(<<1, 0>>), Str(<<0, 9>>), Str(<<1, 0, 0>>)}

\* book sides: up to MaxBook entries [price, amount], the amount "1"
BookSides == SeqsUpTo({<<p, Str(<<1>>)>> : p \in PriceStrings}, MaxBook)

InitValid ==
    /\ vpc = "input"
    /\ values \in [bids : BookSides, asks : BookSides]
    /\ validated = "none"
    /\ QuoteOff /\ CachesEmpty /\ TradeIdle /\ PricingIdle /\ PoolsOff
    /\ NoHistory

Validate ==
    /\ vpc = "input"
    /\ vpc' = "validated"
    /\ validated' = bidsLowerThanAsks(values)
    /\ UNCHANGED values
    /\ UNCHANGED <<qvars, cvars, tvars, pvars, gvars, hvars>>

NextValid == Validate

SpecValid == InitValid /\ [][NextValid]_vars

(***************************************************************************)
(* preProcessTransaction, one action per await.                            *)
(***************************************************************************)
\* the call: options.txOrigin and the rest of the arguments arrive, and
\* isBlacklisted sends its cache.get
StartTrade(Reqs) ==
    /\ tpc = "idle"
    /\ \E r \in Reqs : req' = r
    /\ tpc' = "isBlacklisted"
    /\ resp' = NoResponse /\ caught' = NoError /\ hsetValue' = <<>>
    /\ rfqRequests' = 0 /\ outcome' = NoOutcome
    /\ UNCHANGED <<qvars, vvars, cvars, pvars, gvars, hvars>>

\* the cache answers.  A blacklisted origin ends the call with an Error whose
\* message ends with 'is blacklisted'; a missing mm fails the assert before
\* the try block; otherwise api.requestQuote is called.
BlacklistChecked ==
    /\ tpc = "isBlacklisted"
    /\ IF isBlacklisted(blacklistCache, req.txOrigin)
       THEN /\ tpc' = "done"
            /\ outcome' = [kind |-> "thrown", at |-> "isBlacklisted",
                           e |-> Error("Error", FALSE)]
            /\ UNCHANGED rfqRequests
       ELSE IF req.data = undefined
       THEN /\ tpc' = "done"
            /\ outcome' = [kind |-> "thrown", at |-> "assert",
                           e |-> Error("AssertionError", FALSE)]
            /\ UNCHANGED rfqRequests
       ELSE /\ tpc' = "requestQuote"
            /\ rfqRequests' = rfqRequests + 1
            /\ UNCHANGED outcome
    /\ UNCHANGED <<req, resp, caught, hsetValue>>
    /\ UNCHANGED <<qvars, vvars, cvars, pvars, gvars, hvars>>

\* api.requestQuote answers, throws or times out, and the try block runs to
\* its return or into the catch block, up to the await of the catch block.
\* restrictMM reads Date.now() before its hset is sent.
QuoteResponse(Resps) ==
    /\ tpc = "requestQuote"
    /\ \E rs \in Resps :
          /\ resp' = rs
          /\ LET e == tryError(req, rs)
             IN  IF e = NoError
                 THEN /\ tpc' = "done"
                      /\ outcome' = tryReturn(req, rs)
                      /\ UNCHANGED <<caught, hsetValue>>
                 ELSE /\ tpc' = catchBranch(e)
                      /\ caught' = e
                      /\ hsetValue' = IF catchBranch(e) = "restrictMM"
                                      THEN toString(now) ELSE <<>>
                      /\ UNCHANGED outcome
    /\ UNCHANGED <<req, rfqRequests>>
    /\ UNCHANGED <<qvars, vvars, cvars, pvars, gvars, hvars>>

\* setBlacklist's setex is done; throw e
SetBlacklistDone ==
    /\ tpc = "setBlacklist"
    /\ blacklistCache' =
           cacheSetex(blacklistCache, getBlackListKey(req.txOrigin),
                      HASHFLOW_BLACKLIST_TTL_S, "blacklisted", now)
    /\ tpc' = "done"
    /\ outcome' = [kind |-> "thrown", at |-> "catch", e |-> caught]
    /\ UNCHANGED <<req, resp, caught, hsetValue, rfqRequests>>
    /\ UNCHANGED <<now, restrictHash, levelsCache, pendingDel, pendingHdel>>
    /\ UNCHANGED <<qvars, vvars, pvars, gvars, hvars>>

\* restrictMM's hset is done, its cache.del is sent and not awaited; throw e
RestrictMMDone ==
    /\ tpc = "restrictMM"
    /\ pendingDel < MaxPending
    /\ restrictHash' = hset(restrictHash, req.data.mm, hsetValue)
    /\ pendingDel' = pendingDel + 1
    /\ tpc' = "done"
    /\ outcome' = [kind |-> "thrown", at |-> "catch", e |-> caught]
    /\ UNCHANGED <<req, resp, caught, hsetValue, rfqRequests>>
    /\ UNCHANGED <<now, blacklistCache, levelsCache, pendingHdel>>
    /\ UNCHANGED <<qvars, vvars, pvars, gvars>>
    /\ delOf' = IF tracked THEN Append(delOf, req.data.mm) ELSE delOf
    /\ invalidated' = invalidated \ {req.data.mm}
    /\ UNCHANGED tracked

\* the caller has its answer; the next call may come
TradeReturn ==
    /\ tpc = "done"
    /\ tpc' = "idle"
    /\ req' = undefined /\ resp' = NoResponse /\ caught' = NoError
    /\ hsetValue' = <<>> /\ rfqRequests' = 0 /\ outcome' = NoOutcome
    /\ UNCHANGED <<qvars, vvars, cvars, pvars, gvars, hvars>>

(***************************************************************************)
(* The calls nobody awaits, and the clock.                                 *)
(***************************************************************************)
\* cache.del('levels') of restrictMM takes effect
LevelsDelApplied ==
    /\ pendingDel > 0
    /\ pendingDel' = pendingDel - 1
    /\ levelsCache' = undefined
    /\ UNCHANGED <<now, restrictHash, blacklistCache, pendingHdel>>
    /\ UNCHANGED <<qvars, vvars, tvars, pvars, gvars>>
    /\ DelSettled(TRUE, restrictHash, now)

\* cache.del('levels') fails: .catch logs
LevelsDelFailed ==
    /\ pendingDel > 0
    /\ pendingDel' = pendingDel - 1
    /\ UNCHANGED <<now, restrictHash, blacklistCache, levelsCache,
                   pendingHdel>>
    /\ UNCHANGED <<qvars, vvars, tvars, pvars, gvars>>
    /\ DelSettled(FALSE, restrictHash, now)

\* cache.hdel of the expired keys takes effect
HdelApplied ==
    /\ pendingHdel # <<>>
    /\ restrictHash' = hdel(restrictHash, Head(pendingHdel))
    /\ pendingHdel' = Tail(pendingHdel)
    /\ UNCHANGED <<now, blacklistCache, levelsCache, pendingDel>>
    /\ UNCHANGED <<qvars, vvars, tvars, pvars, gvars>>
    /\ invalidated' = inWindow(invalidated, restrictHash', now)
    /\ UNCHANGED <<tracked, delOf>>

\* cache.hdel fails: .catch logs
HdelFailed ==
    /\ pendingHdel # <<>>
    /\ pendingHdel' = Tail(pendingHdel)
    /\ UNCHANGED <<now, restrictHash, blacklistCache, levelsCache,
                   pendingDel>>
    /\ UNCHANGED <<qvars, vvars, tvars, pvars, gvars, hvars>>

\* time passes; the cache drops the keys whose time to live is over
Tick ==
    /\ now < MaxTime
    /\ now' = now + 1
    /\ blacklistCache' = cacheAlive(blacklistCache, now + 1)
    /\ levelsCache' = IF levelsCache # undefined
                         /\ levelsCache.expiresAt > now + 1
                      THEN levelsCache ELSE undefined
    /\ invalidated' = inWindow(invalidated, restrictHash, now + 1)
    /\ UNCHANGED <<tracked, delOf>>
    /\ UNCHANGED <<restrictHash, pendingDel, pendingHdel>>
    /\ UNCHANGED <<qvars, vvars, tvars, pvars, gvars>>

(***************************************************************************)
(* getLevelsWithCache, one action per await.  A levels snapshot is kept as *)
(* the set of makers it has levels of.                                     *)
(***************************************************************************)
\* the call sends cache.get('levels')
StartPricing ==
    /\ ppc = "idle"
    /\ ppc' = "cacheGet"
    /\ UNCHANGED <<cachedRestrictionUnparsed, parsed, filteredMakers,
                   fetchedLevels>>
    /\ UNCHANGED <<qvars, vvars, cvars, tvars, gvars, hvars>>

\* the cache answers: a hit is returned, a miss starts
\* getFilteredMarketMakers
LevelsCacheRead ==
    /\ ppc = "cacheGet"
    /\ IF levelsCache # undefined
       THEN /\ ppc' = "done"
            /\ fetchedLevels' = [makers |-> levelsCache.makers]
       ELSE /\ ppc' = "hgetAll"
            /\ UNCHANGED fetchedLevels
    /\ UNCHANGED <<cachedRestrictionUnparsed, parsed, filteredMakers>>
    /\ UNCHANGED <<qvars, vvars, cvars, tvars, gvars, hvars>>

\* the cache answers hgetAll
HgetAllRead ==
    /\ ppc = "hgetAll"
    /\ cachedRestrictionUnparsed' = restrictHash
    /\ ppc' = "filter"
    /\ UNCHANGED <<parsed, filteredMakers,
                   fetchedLevels>>
    /\ UNCHANGED <<qvars, vvars, cvars, tvars, gvars, hvars>>

\* Promise.all is settled: parseCacheRestrictionAndExpiryIfNeeded runs at
\* Date.now(), sends its hdel, the directory is filtered and
\* api.getPriceLevels is called
FilterMakers ==
    /\ ppc = "filter"
    /\ LET p == parseCacheRestrictionAndExpiryIfNeeded(
                    cachedRestrictionUnparsed, now)
       IN  /\ Len(pendingHdel) + Len(p.hdelCalls) <= MaxPending
           /\ parsed' = [restrictedMMs |-> p.restrictedMMs,
                         hdelCalls |-> p.hdelCalls, now |-> now]
           /\ pendingHdel' = pendingHdel \o p.hdelCalls
           /\ filteredMakers' = filterMakers(Makers, p.restrictedMMs)
    /\ ppc' = "getPriceLevels"
    /\ UNCHANGED <<cachedRestrictionUnparsed, fetchedLevels>>
    /\ UNCHANGED <<now, restrictHash, blacklistCache, levelsCache, pendingDel>>
    /\ UNCHANGED <<qvars, vvars, tvars, gvars, hvars>>

\* api.getPriceLevels answers with the levels of the makers asked for; what
\* getFilteredMarketMakers held is gone
PriceLevelsFetched ==
    /\ ppc = "getPriceLevels"
    /\ fetchedLevels' = [makers |-> filteredMakers]
    /\ ppc' = "setex"
    /\ cachedRestrictionUnparsed' = EmptyHash /\ parsed' = undefined
    /\ filteredMakers' = {}
    /\ UNCHANGED <<qvars, vvars, cvars, tvars, gvars, hvars>>

\* api.getPriceLevels throws or times out: getLevelsWithCache throws
PriceLevelsFailed ==
    /\ ppc = "getPriceLevels"
    /\ ppc' = "done"
    /\ cachedRestrictionUnparsed' = EmptyHash /\ parsed' = undefined
    /\ filteredMakers' = {}
    /\ UNCHANGED fetchedLevels
    /\ UNCHANGED <<qvars, vvars, cvars, tvars, gvars, hvars>>

\* cache.setex('levels') is done; return levels
SetexDone ==
    /\ ppc = "setex"
    /\ levelsCache' = [makers |-> fetchedLevels.makers,
                       expiresAt |-> now + PRICE_LEVELS_TTL_SECONDS]
    /\ ppc' = "done"
    /\ UNCHANGED <<cachedRestrictionUnparsed, parsed, filteredMakers,
                   fetchedLevels>>
    /\ UNCHANGED <<now, restrictHash, blacklistCache, pendingDel, pendingHdel>>
    /\ UNCHANGED <<qvars, vvars, tvars, gvars, hvars>>

\* the caller has its answer; the next call may come
PricingReturn ==
    /\ ppc = "done"
    /\ ppc' = "idle"
    /\ cachedRestrictionUnparsed' = EmptyHash /\ parsed' = undefined
    /\ filteredMakers' = {} /\ fetchedLevels' = undefined
    /\ UNCHANGED <<qvars, vvars, cvars, tvars, gvars, hvars>>

(***************************************************************************)
(* Inputs: strings, requests and responses.                                *)
(***************************************************************************)
\* a trade origin 'A1' and the same address in lower case
OriginA1 == <<65, 49>>
Origina1 == <<97, 49>>

\* token addresses: the native token as 'EE', and 'aa', 'Bb'
TokenEE == <<69, 69>>
Tokenaa == <<97, 97>>
TokenBb == <<66, 98>>

Request(origin, data, src, dest, sd, srcAmount, destAmount, sf) ==
    [txOrigin |-> origin, data |-> data, srcToken |-> src, destToken |-> dest,
     side |-> sd, srcAmount |-> srcAmount, destAmount |-> destAmount,
     slippageFactor |-> sf]

QuoteData(rfqType, base, quote, baseAmount, quoteAmount, expiry) ==
    [rfqType |-> rfqType, baseToken |-> base, quoteToken |-> quote,
     baseTokenAmount |-> baseAmount, quoteTokenAmount |-> quoteAmount,
     quoteExpiry |-> expiry]

Answer(status, quoteData, signature, gasEstimate) ==
    [threw |-> FALSE, e |-> NoError,
     rfq |-> [status |-> status, quoteData |-> quoteData,
              signature |-> signature, gasEstimate |-> gasEstimate]]

Thrown(e) == [threw |-> TRUE, e |-> e, rfq |-> undefined]

\* what api.requestQuote may throw: the restricted-user message of the quote
\* source, any other Error (the timeout of Utils.timeoutPromise among them),
\* and a value that is no Error
ThrownSet ==
    {Thrown(Error("Error", TRUE)), Thrown(Error("Error", FALSE)),
     Thrown(NonError)}

\* slippage factors: below 1 for SELL, above 1 for BUY
SlippageSELL == {BN(94, 100), BN(99, 100)}
SlippageBUY == {BN(101, 100), BN(106, 100)}

(***************************************************************************)
(* Spec: the two tasks, the calls in flight and the clock, again and       *)
(* again, on few inputs.                                                   *)
(***************************************************************************)
Requests ==
    {Request(OriginA1, [mm |-> m], Tokenaa, TokenBb, "SELL", 10, 10,
             BN(94, 100)) : m \in {MM1, MM2}}

Responses ==
    {Answer("success",
            QuoteData("RFQT", Tokenaa, toLowerCase(TokenBb), 10, 10, BN(5, 1)),
            "0xsig", 1),
     Thrown(Error("Error", TRUE)), Thrown(Error("Error", FALSE))}

Init ==
    /\ QuoteOff /\ ValidOff /\ PoolsOff
    /\ CachesEmpty /\ TradeIdle /\ PricingIdle /\ NoHistory

Next ==
    \/ StartTrade(Requests)
    \/ BlacklistChecked
    \/ QuoteResponse(Responses)
    \/ SetBlacklistDone
    \/ RestrictMMDone
    \/ TradeReturn
    \/ LevelsDelApplied
    \/ LevelsDelFailed
    \/ HdelApplied
    \/ HdelFailed
    \/ Tick
    \/ StartPricing
    \/ LevelsCacheRead
    \/ HgetAllRead
    \/ FilterMakers
    \/ PriceLevelsFetched
    \/ PriceLevelsFailed
    \/ SetexDone
    \/ PricingReturn

Spec == Init /\ [][Next]_vars

(***************************************************************************)
(* SpecBlacklist: the same tasks, and calls whose origin is the address of *)
(* the other calls in lower case.  These calls carry no maker: they end at *)
(* the blacklist check or at the assert and never blacklist anybody, so a  *)
(* blacklist entry is the work of a call with the other spelling.          *)
(***************************************************************************)
BlacklistRequests ==
    Requests \cup
    {Request(Origina1, undefined, Tokenaa, TokenBb, "SELL", 10, 10,
             BN(94, 100))}

NextBlacklist ==
    \/ StartTrade(BlacklistRequests)
    \/ BlacklistChecked
    \/ QuoteResponse(Responses)
    \/ SetBlacklistDone
    \/ RestrictMMDone
    \/ TradeReturn
    \/ LevelsDelApplied
    \/ LevelsDelFailed
    \/ HdelApplied
    \/ HdelFailed
    \/ Tick
    \/ StartPricing
    \/ LevelsCacheRead
    \/ HgetAllRead
    \/ FilterMakers
    \/ PriceLevelsFetched
    \/ PriceLevelsFailed
    \/ SetexDone
    \/ PricingReturn

SpecBlacklist == Init /\ [][NextBlacklist]_vars

(***************************************************************************)
(* SpecRace: the same tasks, with the history of the invalidations kept.   *)
(***************************************************************************)
InitRace ==
    /\ QuoteOff /\ ValidOff /\ PoolsOff
    /\ CachesEmpty /\ TradeIdle /\ PricingIdle
    /\ tracked = TRUE /\ delOf = <<>> /\ invalidated = {}

SpecRace == InitRace /\ [][Next]_vars

(***************************************************************************)
(* SpecTrade: one preProcessTransaction call, on every shape of request    *)
(* and response, from the cache states a call can find.                    *)
(***************************************************************************)
TradeRequests ==
    {Request(o, d, s, TokenBb, sd, 10, 10,
             IF sd = "SELL" THEN BN(94, 100) ELSE BN(106, 100)) :
        o \in {OriginA1, Origina1},
        d \in {undefined, [mm |-> MM1], [mm |-> MM2]},
        s \in {TokenEE, Tokenaa},
        sd \in {"SELL", "BUY"}}

TradeQuoteData ==
    {undefined} \cup
    {QuoteData(ty, b, q, ba, qa, ex) :
        ty \in {"RFQT", "RFQM"},
        b \in {ZERO_ADDRESS, ETHER_ADDRESS, Tokenaa},
        q \in {TokenBb, toLowerCase(TokenBb)},
        ba \in {10, 11}, qa \in {9, 10},
        ex \in {undefined, BN_0, BN(5, 1)}}

TradeResponses ==
    ThrownSet \cup
    {Answer(st, qd, sig, gas) :
        st \in {"success", "fail"}, qd \in TradeQuoteData,
        sig \in {"", "0xsig"}, gas \in {0, 1}}

\* the caches as earlier calls can have left them: empty, the origin
\* blacklisted, a maker restricted
InitTrade ==
    /\ QuoteOff /\ ValidOff /\ PoolsOff /\ TradeIdle /\ PricingIdle
    /\ NoHistory
    /\ now = 0 /\ levelsCache = undefined /\ pendingDel = 0
    /\ pendingHdel = <<>>
    /\ \/ restrictHash = EmptyHash /\ blacklistCache = EmptyCache
       \/ /\ restrictHash = EmptyHash
          /\ blacklistCache =
                 cacheSetex(EmptyCache, getBlackListKey(OriginA1),
                            HASHFLOW_BLACKLIST_TTL_S, "blacklisted", 0)
       \/ /\ restrictHash = hset(EmptyHash, MM2, toString(0))
          /\ blacklistCache = EmptyCache

NextTrade ==
    \/ StartTrade(TradeRequests)
    \/ BlacklistChecked
    \/ QuoteResponse(TradeResponses)
    \/ SetBlacklistDone
    \/ RestrictMMDone
    \/ LevelsDelApplied
    \/ LevelsDelFailed

SpecTrade == InitTrade /\ [][NextTrade]_vars

(***************************************************************************)
(* SpecSlippage: one preProcessTransaction call whose response has the     *)
(* right shape, on many amounts.                                           *)
(***************************************************************************)
SlippageAmounts == {10, 100}

SlippageRequests ==
    {Request(OriginA1, [mm |-> MM1], Tokenaa, TokenBb, "SELL", s, d, sf) :
        s \in SlippageAmounts, d \in SlippageAmounts, sf \in SlippageSELL}
    \cup
    {Request(OriginA1, [mm |-> MM1], Tokenaa, TokenBb, "BUY", s, d, sf) :
        s \in SlippageAmounts, d \in SlippageAmounts, sf \in SlippageBUY}

BaseAmounts == {9, 10, 11, 100, 101, 106, 107}
QuoteAmounts == {9, 10, 94, 98, 99, 100}

SlippageResponses ==
    {Thrown(Error("Error", TRUE))} \cup
    {Answer("success",
            QuoteData("RFQT", Tokenaa, toLowerCase(TokenBb), ba, qa, ex),
            "0xsig", 1) :
        ba \in BaseAmounts, qa \in QuoteAmounts,
        ex \in {undefined, BN_0, BN(5, 1)}}

InitSlippage ==
    /\ QuoteOff /\ ValidOff /\ PoolsOff
    /\ CachesEmpty /\ TradeIdle /\ PricingIdle /\ NoHistory

NextSlippage ==
    \/ StartTrade(SlippageRequests)
    \/ BlacklistChecked
    \/ QuoteResponse(SlippageResponses)
    \/ SetBlacklistDone
    \/ RestrictMMDone
    \/ LevelsDelApplied
    \/ LevelsDelFailed

SpecSlippage == InitSlippage /\ [][NextSlippage]_vars

(***************************************************************************)
(* SpecPools: getPoolIdentifiers, then getPricesVolume with the            *)
(* identifiers as limitPools or without limitPools, on the same levels.    *)
(***************************************************************************)
\* token addresses 'Aa', 'AA', 'bb', 'bB', 'cc'
PoolTokens ==
    [Aa |-> <<65, 97>>, AA |-> <<65, 65>>, bb |-> <<98, 98>>,
     bB |-> <<98, 66>>, cc |-> <<99, 99>>]

\* a pair as a maker publishes it, with its levels: 2 units at the price 2
PairEntry(base, quote) ==
    [pair |-> [baseToken |-> base, quoteToken |-> quote],
     levels |-> <<[level |-> BN(2, 1), price |-> BN(2, 1)]>>]

\* the levels of the makers 'm1' and 'M2', of one of them, or of none; a
\* maker publishes one pair, in some letter case, or two pairs
LevelsOfMakers ==
    LET EntryLists ==
            {<<PairEntry(b, q)>> :
                b \in {Tokenaa, PoolTokens.AA, PoolTokens.cc},
                q \in {PoolTokens.bb, TokenBb}}
            \cup {<<PairEntry(PoolTokens.cc, PoolTokens.bb),
                     PairEntry(Tokenaa, PoolTokens.bb)>>}
    IN  {<<>>}
        \cup {<<[mm |-> m, entries |-> e]>> :
                 m \in {MM1, MM2}, e \in EntryLists}
        \cup {<<[mm |-> MM1, entries |-> e1],
                 [mm |-> MM2, entries |-> e2]>> :
                 e1 \in EntryLists, e2 \in EntryLists}

InitPools ==
    /\ QuoteOff /\ ValidOff /\ CachesEmpty /\ TradeIdle /\ PricingIdle
    /\ NoHistory
    /\ gpc = "input"
    /\ cachedLevels \in LevelsOfMakers
    /\ srcTok \in {[address |-> a, decimals |-> 0] :
                      a \in {Tokenaa, PoolTokens.Aa, PoolTokens.bB}}
    /\ destTok = [address |-> TokenBb, decimals |-> 0]
    /\ swapSide \in {"SELL", "BUY"}
    /\ limitPoolsArg = undefined
    /\ poolIdentifiers = <<>>
    /\ poolPrices = [isNull |-> TRUE, prices |-> <<>>]

CallGetPoolIdentifiers ==
    /\ gpc = "input"
    /\ gpc' = "listed"
    /\ poolIdentifiers' = getPoolIdentifiers(cachedLevels, srcTok, destTok)
    /\ UNCHANGED <<cachedLevels, srcTok, destTok, swapSide, limitPoolsArg,
                   poolPrices>>
    /\ UNCHANGED <<qvars, vvars, cvars, tvars, pvars, hvars>>

\* getPricesVolume with the identifiers just returned as limitPools, on the
\* amounts [1]
CallGetPricesVolumeLimited ==
    /\ gpc = "listed"
    /\ gpc' = "priced"
    /\ limitPoolsArg' = [pools |-> poolIdentifiers]
    /\ poolPrices' = getPricesVolume(cachedLevels, srcTok, destTok,
                                     <<1>>, swapSide, limitPoolsArg')
    /\ UNCHANGED <<cachedLevels, srcTok, destTok, swapSide, poolIdentifiers>>
    /\ UNCHANGED <<qvars, vvars, cvars, tvars, pvars, hvars>>

\* getPricesVolume without limitPools
CallGetPricesVolume ==
    /\ gpc = "listed"
    /\ gpc' = "priced"
    /\ limitPoolsArg' = undefined
    /\ poolPrices' = getPricesVolume(cachedLevels, srcTok, destTok,
                                     <<1>>, swapSide, undefined)
    /\ UNCHANGED <<cachedLevels, srcTok, destTok, swapSide, poolIdentifiers>>
    /\ UNCHANGED <<qvars, vvars, cvars, tvars, pvars, hvars>>

NextPools ==
    \/ CallGetPoolIdentifiers
    \/ CallGetPricesVolumeLimited
    \/ CallGetPricesVolume

SpecPools == InitPools /\ [][NextPools]_vars

(***************************************************************************)
(* The curve as the specification describes it, for the claims below:      *)
(* cumulative quote at a level, the tier of a request, published depth.    *)
(***************************************************************************)
\* cumulative quote value at level k: the value of the first level's own size
\* plus depth * marginal price of every tier up to k
RECURSIVE CumQuoteAt(_, _)
CumQuoteAt(levels, k) ==
    IF k = 1 THEN multipliedBy(levels[1].level, levels[1].price)
    ELSE plus(CumQuoteAt(levels, k - 1),
              multipliedBy(minus(levels[k].level, levels[k - 1].level),
                           levels[k].price))

\* the first level whose cumulative size is >= the request, 0 if none
TierOf(levels, request) ==
    LET hits == {i \in 1..Len(levels) : lte(request, levels[i].level)}
    IN  IF hits = {} THEN 0
        ELSE CHOOSE i \in hits : \A j \in hits : i <= j

ExampleLevels ==
    <<[level |-> BN(0, 1), price |-> BN(2, 1)],
      [level |-> BN(10, 1), price |-> BN(2, 1)],
      [level |-> BN(20, 1), price |-> BN(3, 1)]>>

\* a request by base amount alone, on levels starting at size 0, answered
BaseQuoted ==
    /\ qpc = "quoted"
    /\ IsDefined(reqBaseAmount) /\ ~IsDefined(reqQuoteAmount)
    /\ Len(priceLevels) > 0 /\ isZero(priceLevels[1].level)

\* C6: computeLevelsQuote by base amount, on levels starting at size 0, returns
\* cumulativeQuoteAtPriorLevel + (requestedBase - cumulativeBaseAtPriorLevel)
\* * tierPrice, the tier being the first level whose cumulative size is >= the
\* request; levels (0,2),(10,2),(20,3) with base request 15 give 35.  The
\* request is positive, as every request of computePricesFromLevels is: the
\* tier of request 0 is the zero level itself, which has no prior level.
C6_BaseInterpolation ==
    /\ computeLevelsQuote(ExampleLevels, BN(15, 1), undefined) = BN(35, 1)
    /\ (BaseQuoted /\ gt(reqBaseAmount, BN_0)) =>
          LET t == TierOf(priceLevels, reqBaseAmount)
          IN  t # 0 =>
                levelsQuote =
                    plus(CumQuoteAt(priceLevels, t - 1),
                         multipliedBy(minus(reqBaseAmount,
                                            priceLevels[t - 1].level),
                                      priceLevels[t].price))

\* a request inside the third tier, past two tier boundaries, was answered
C6_Witness ==
    /\ BaseQuoted
    /\ TierOf(priceLevels, reqBaseAmount) = 3
    /\ lt(reqBaseAmount, priceLevels[3].level)
    /\ priceLevels[2].price # priceLevels[3].price
    /\ IsDefined(levelsQuote)

\* the amount exceeds what the levels publish: by base, the deepest level's
\* cumulative size; by quote, the cumulative quote value at the deepest level
ExceedsDepth(levels, amount, byBase) ==
    IF byBase THEN gt(amount, levels[Len(levels)].level)
    ELSE gt(amount, CumQuoteAt(levels, Len(levels)))

\* C7: no extrapolation beyond published depth: on a non-empty level list a
\* base request above the deepest level's cumulative size, or a quote request
\* above the cumulative quote at the deepest level, returns undefined, and
\* computePricesFromLevels reports 0 for such an amount.
C7_NoExtrapolation ==
    /\ (qpc = "quoted" /\ Len(priceLevels) > 0) =>
          /\ (IsDefined(reqBaseAmount)
                /\ ExceedsDepth(priceLevels, reqBaseAmount, TRUE))
                => levelsQuote = undefined
          /\ (IsDefined(reqQuoteAmount)
                /\ ExceedsDepth(priceLevels, reqQuoteAmount, FALSE))
                => levelsQuote = undefined
    /\ (qpc = "priced" /\ Len(priceLevels) > 0) =>
          \A i \in 1..Len(amounts) :
              ExceedsDepth(priceLevels, amounts[i], side = "SELL")
                  => prices[i] = 0

\* two amounts priced on a curve of two tiers, the first one filled and the
\* second one beyond the depth
C7_Witness ==
    /\ qpc = "priced"
    /\ Len(priceLevels) = 3
    /\ Len(amounts) = 2
    /\ prices[1] > 0
    /\ ExceedsDepth(priceLevels, amounts[2], side = "SELL")
    /\ prices[2] = 0

\* C8 as stated: for a non-decreasing sequence of amounts the output array of
\* computePricesFromLevels is monotonically non-decreasing.
C8_OutputsNonDecreasing ==
    qpc = "priced" =>
        \A i \in 1..Len(amounts) : \A j \in i..Len(amounts) :
            prices[i] <= prices[j]

\* C8 as amended: the outputs are non-decreasing over the amounts within the
\* published depth, and every amount beyond it is reported as 0 (so the array
\* drops to 0 at the first unfillable amount).
C8_NonDecreasingWhileFillable ==
    qpc = "priced" =>
        \A j \in 1..Len(amounts) :
            LET beyond == \/ Len(priceLevels) = 0
                          \/ ExceedsDepth(priceLevels, amounts[j],
                                          side = "SELL")
            IN  /\ (beyond /\ ~isZero(amounts[j])) => prices[j] = 0
                /\ ~beyond => \A i \in 1..j : prices[i] <= prices[j]

\* two increasing amounts in different tiers, both filled, the second output
\* above the first
C8_Witness ==
    /\ qpc = "priced"
    /\ Len(amounts) = 2
    /\ Len(priceLevels) = 3
    /\ lte(amounts[1], priceLevels[2].level)
    /\ gt(amounts[2], priceLevels[2].level)
    /\ ~ExceedsDepth(priceLevels, amounts[2], side = "SELL")
    /\ 0 < prices[1] /\ prices[1] < prices[2]

\* the decimal outputs of the call, before their conversion to integers
DecimalOutputs ==
    OutputsLoop(WithZeroLevel(priceLevels), amounts, side, 1,
                [i \in 1..Len(amounts) |-> BN_0])

\* C16: computePricesFromLevels scales each decimal output by 10^decimals
\* and truncates toward zero: the integer returned is the floor of the scaled
\* value, never rounded up.
C16_ScaledOutputTruncated ==
    qpc = "priced" =>
        \A i \in 1..Len(amounts) :
            LET scaled == multipliedBy(DecimalOutputs[i],
                                       getBigNumberPow(decimals))
            IN  prices[i] = scaled.n \div scaled.d

\* the numeric value of a price string of the books
RECURSIVE NumberOf(_)
NumberOf(str) ==
    IF str = <<>> THEN 0
    ELSE 10 * NumberOf(SubSeq(str, 1, Len(str) - 1)) + (str[Len(str)] - Chr0)

BidPrices == {NumberOf(values.bids[i][1]) : i \in 1..Len(values.bids)}
AskPrices == {NumberOf(values.asks[i][1]) : i \in 1..Len(values.asks)}

\* the book is crossed: its maximum bid is >= its minimum ask
Crossed == \E b \in BidPrices : \E a \in AskPrices : b >= a

\* C10: the rule rejects a pair entry whenever its maximum bid is numerically
\* >= its minimum ask and accepts it when the maximum bid is strictly less,
\* for all non-empty bid and ask lists of numeric strings.
C10_CrossedBookRejected ==
    (vpc = "validated" /\ Len(values.bids) > 0 /\ Len(values.asks) > 0) =>
        (validated = "error" <=> Crossed)

(***************************************************************************)
(* Claims on preProcessTransaction.                                        *)
(***************************************************************************)
\* the blacklist holds the address, whatever its letter case
Blacklisted(address) ==
    BlacklistPrefix \o toLowerCase(address) \in DOMAIN blacklistCache

\* the response has the shape and the tokens the call asked for
ShapeValid(rfq) ==
    /\ rfq.status = "success"
    /\ rfq.quoteData # undefined
    /\ rfq.signature # ""
    /\ rfq.gasEstimate # 0
    /\ rfq.quoteData.rfqType = "RFQT"

TokensMatch(r, rfq) ==
    /\ rfq.quoteData.baseToken = normalizeToken(r.srcToken)
    /\ rfq.quoteData.quoteToken = normalizeToken(r.destToken)

PassedValidation ==
    /\ tpc \in {"setBlacklist", "restrictMM", "done"}
    /\ rfqRequests = 1
    /\ ~resp.threw
    /\ ShapeValid(resp.rfq)
    /\ TokensMatch(req, resp.rfq)

\* C1: an attempt that fails once the quote request is out (the request
\* throws or times out, or the response fails a check of the try block) goes
\* to exactly one of two side effects and then rethrows the error it caught.
\* If the error's message ends with the restricted-user signal the origin is
\* blacklisted and the restriction hash stays as it was; otherwise the chosen
\* maker gets a restriction entry and the blacklist stays as it was.
C1_FailureSideEffect ==
    [][/\ (tpc = "requestQuote" /\ tpc' # tpc) =>
            /\ UNCHANGED <<restrictHash, blacklistCache, levelsCache>>
            /\ IF tpc' = "done"
               THEN /\ outcome'.kind = "returned"
                    /\ ~resp'.threw
                    /\ resp'.rfq.status = "success"
               ELSE /\ tpc' \in {"setBlacklist", "restrictMM"}
                    /\ caught' # NoError
                    /\ resp'.threw => caught' = resp'.e
                    /\ tpc' = "setBlacklist" <=>
                           (caught'.isError /\ caught'.endsWithSignal)
       /\ (tpc = "setBlacklist" /\ tpc' # tpc) =>
            /\ tpc' = "done"
            /\ outcome'.kind = "thrown" /\ outcome'.e = caught
            /\ Blacklisted(req.txOrigin)'
            /\ UNCHANGED restrictHash
       /\ (tpc = "restrictMM" /\ tpc' # tpc) =>
            /\ tpc' = "done"
            /\ outcome'.kind = "thrown" /\ outcome'.e = caught
            /\ DOMAIN restrictHash' = DOMAIN restrictHash \cup {req.data.mm}
            /\ UNCHANGED blacklistCache
      ]_vars

C1_Witness ==
    /\ tpc = "done" /\ outcome.kind = "thrown" /\ outcome.at = "catch"
    /\ outcome.e.endsWithSignal
    /\ Blacklisted(req.txOrigin)
    /\ req.data.mm \notin DOMAIN restrictHash

\* C2: when the cache answers the blacklist check and the origin is
\* blacklisted, the call throws there: no quote request has been sent, and
\* the restriction hash, the blacklist and the levels snapshot stay as they
\* were, up to the return to the caller.
C2_BlacklistedRejectedFirst ==
    [][/\ (tpc = "isBlacklisted" /\ Blacklisted(req.txOrigin) /\ tpc' # tpc)
            => /\ tpc' = "done"
               /\ outcome'.kind = "thrown" /\ outcome'.at = "isBlacklisted"
               /\ rfqRequests' = 0
               /\ UNCHANGED cvars
       /\ (tpc = "done" /\ outcome.at = "isBlacklisted" /\ tpc' # tpc)
            => /\ rfqRequests = 0
               /\ UNCHANGED cvars
      ]_vars

C2_Witness ==
    /\ tpc = "done" /\ outcome.kind = "thrown"
    /\ outcome.at = "isBlacklisted"
    /\ req.data # undefined
    /\ req.data.mm \notin DOMAIN restrictHash
    /\ rfqRequests = 0

\* C3: the call returns only on a response with status success, quote data,
\* a signature, a gas estimate, the RFQT type and the normalized tokens of
\* the request; a response that misses one of these is thrown out by an
\* RfqError or a failed assert, never by the slippage check.
C3_AcceptedOnlyIfValid ==
    /\ (tpc = "done" /\ outcome.kind = "returned") =>
          /\ ~resp.threw
          /\ ShapeValid(resp.rfq)
          /\ TokensMatch(req, resp.rfq)
    /\ (/\ tpc \in {"setBlacklist", "restrictMM", "done"}
        /\ rfqRequests = 1
        /\ ~resp.threw
        /\ ~(ShapeValid(resp.rfq) /\ TokensMatch(req, resp.rfq))) =>
          /\ outcome.kind # "returned"
          /\ caught.name \in {"RfqError", "AssertionError"}

C3_Witness ==
    /\ tpc = "done" /\ outcome.kind = "returned"
    /\ req.srcToken = TokenEE
    /\ resp.rfq.quoteData.baseToken = ZERO_ADDRESS

\* the call threw a SlippageCheckError
SlippageRaised == caught.name = "SlippageCheckError"

\* C4: a SELL call whose response passed validation (and carries an expiry)
\* throws SlippageCheckError exactly when the returned quote-token amount is
\* less than destAmount * slippageFactor.
C4_SellSlippageIffBelowProduct ==
    (PassedValidation /\ req.side = "SELL"
        /\ IsDefined(resp.rfq.quoteData.quoteExpiry)) =>
       (SlippageRaised <=>
           lt(BN(resp.rfq.quoteData.quoteTokenAmount, 1),
              multipliedBy(BN(req.destAmount, 1), req.slippageFactor)))

\* C5: a BUY call whose response passed validation (and carries an expiry)
\* throws SlippageCheckError exactly when the returned quote-token amount is
\* less than destAmount or the returned base-token amount is greater than
\* srcAmount * slippageFactor.
C5_BuySlippageIffOverProduct ==
    (PassedValidation /\ req.side = "BUY"
        /\ IsDefined(resp.rfq.quoteData.quoteExpiry)) =>
       (SlippageRaised <=>
           \/ resp.rfq.quoteData.quoteTokenAmount < req.destAmount
           \/ gt(BN(resp.rfq.quoteData.baseTokenAmount, 1),
                 multipliedBy(BN(req.srcAmount, 1), req.slippageFactor)))

\* C12: an accepted call returns the expiry of the quote as its deadline when
\* the expiry is above zero, and the maximal deadline when it is zero or
\* absent; no call is thrown out, and no maker restricted, for an expiry
\* that is zero or absent.
C12_DeadlineFromExpiry ==
    LET expiry == resp.rfq.quoteData.quoteExpiry
    IN  /\ (tpc = "done" /\ outcome.kind = "returned") =>
              outcome.deadline =
                  IF IsDefined(expiry) /\ gt(expiry, BN_0)
                  THEN [value |-> expiry.n \div expiry.d]
                  ELSE BI_MAX_UINT256
        /\ (PassedValidation /\ (~IsDefined(expiry) \/ isZero(expiry))) =>
              caught.name \in {"none", "SlippageCheckError"}

(***************************************************************************)
(* Claims on the restriction hash.                                         *)
(***************************************************************************)
\* the entry of maker mm in the raw entries is older than the window at t
OlderThanWindow(raw, mm, t) ==
    ToNumber(raw[mm]) < t - HASHFLOW_MM_RESTRICT_TTL_S

\* C9: of the raw entries parseCacheRestrictionAndExpiryIfNeeded is given, a
\* maker whose entry is older than the window is left out of the returned
\* set and is in the one hdel call; a maker whose entry is within the window
\* is in the returned set and in no hdel call.  What the call returned is
\* not changed by the hdel taking effect or failing.
C9_ParseInvariant ==
    ppc = "getPriceLevels" =>
       /\ Len(parsed.hdelCalls) <= 1
       /\ parsed.restrictedMMs \subseteq DOMAIN cachedRestrictionUnparsed
       /\ \A mm \in DOMAIN cachedRestrictionUnparsed :
             IF OlderThanWindow(cachedRestrictionUnparsed, mm, parsed.now)
             THEN /\ mm \notin parsed.restrictedMMs
                  /\ Len(parsed.hdelCalls) = 1
                  /\ mm \in parsed.hdelCalls[1]
             ELSE /\ mm \in parsed.restrictedMMs
                  /\ \A i \in 1..Len(parsed.hdelCalls) :
                        mm \notin parsed.hdelCalls[i]

C9_ExpiredPrunedLiveKept ==
    /\ []C9_ParseInvariant
    /\ [][(pendingHdel # <<>> /\ pendingHdel' = Tail(pendingHdel))
             => UNCHANGED <<parsed, filteredMakers>>]_vars

C9_Witness ==
    /\ ppc = "getPriceLevels"
    /\ \E old \in DOMAIN cachedRestrictionUnparsed :
          OlderThanWindow(cachedRestrictionUnparsed, old, parsed.now)
    /\ \E young \in DOMAIN cachedRestrictionUnparsed :
          ~OlderThanWindow(cachedRestrictionUnparsed, young, parsed.now)
    /\ parsed.hdelCalls # <<>>
    /\ parsed.restrictedMMs # {}

\* C14: getFilteredMarketMakers returns exactly the makers of the directory
\* that are not disabled and have no entry within the window among the
\* entries it read: a maker whose entry is older than the window is returned
\* although the entry is still in the hash.
C14_FilteredMakersExact ==
    ppc = "getPriceLevels" =>
        filteredMakers =
            {m \in Makers :
                /\ m \notin disabledMMs
                /\ ~(/\ m \in DOMAIN cachedRestrictionUnparsed
                     /\ ~OlderThanWindow(cachedRestrictionUnparsed, m,
                                         parsed.now))}

\* one maker returned with its expired entry still in the hash, one maker
\* held back by its entry, the disabled maker held back
C14_Witness ==
    /\ ppc = "getPriceLevels"
    /\ \E m \in filteredMakers :
          m \in DOMAIN cachedRestrictionUnparsed /\ m \in DOMAIN restrictHash
    /\ \E m \in DOMAIN cachedRestrictionUnparsed : m \notin filteredMakers
    /\ MM3 \notin filteredMakers

\* the makers whose restriction is written and within its window, and whose
\* invalidation of the levels has taken effect
ExcludedMakers ==
    {m \in invalidated :
        /\ m \in DOMAIN restrictHash
        /\ ~OlderThanWindow(restrictHash, m, now)}

C13_CacheInvariant ==
    levelsCache # undefined => levelsCache.makers \cap ExcludedMakers = {}

\* C13: once restrictMM has written the timestamp of a maker and its
\* cache.del of the levels has taken effect, then as long as the restriction
\* is within its window the levels in the cache do not hold the maker and no
\* getLevelsWithCache call returns levels that hold it, whatever the
\* interleaving with the pricing calls.
C13_RestrictedMakerNotPriced ==
    /\ []C13_CacheInvariant
    /\ [][(ppc # "done" /\ ppc' = "done" /\ fetchedLevels' # undefined)
             => fetchedLevels'.makers \cap ExcludedMakers' = {}]_vars


(***************************************************************************)
(* Claims on the blacklist.                                                *)
(***************************************************************************)
\* the spellings of one trade origin
Origins == {OriginA1, Origina1}

SameAddress(a, b) == toLowerCase(a) = toLowerCase(b)

\* the cache holds an entry under 'blacklist_' and the address in lower case
Held(c, address) == BlacklistPrefix \o toLowerCase(address) \in DOMAIN c

EntryOf(c, address) == c[BlacklistPrefix \o toLowerCase(address)]

\* isBlacklisted is true of the spellings of the addresses that have an
\* entry, and an entry is held from its insertion to the end of its time to
\* live and no longer
C15_EntryWithinTTL ==
    \A a \in Origins :
        /\ isBlacklisted(blacklistCache, a) = Held(blacklistCache, a)
        /\ Held(blacklistCache, a) =>
               /\ EntryOf(blacklistCache, a).expiresAt > now
               /\ EntryOf(blacklistCache, a).expiresAt
                      <= now + HASHFLOW_BLACKLIST_TTL_S

C15_Step ==
    \* setBlacklist done: every spelling of the origin is blacklisted, for
    \* the time to live from now on
    /\ (tpc = "setBlacklist" /\ tpc' = "done") =>
           \A a \in Origins :
               SameAddress(a, req.txOrigin) =>
                   /\ isBlacklisted(blacklistCache', a)
                   /\ Held(blacklistCache', a)
                   /\ EntryOf(blacklistCache', a).expiresAt
                          = now + HASHFLOW_BLACKLIST_TTL_S
    \* only another setBlacklist changes the entry before it ends, and it
    \* ends by the clock reaching its time
    /\ \A a \in Origins :
           Held(blacklistCache, a) =>
               IF Held(blacklistCache', a)
               THEN \/ EntryOf(blacklistCache', a) = EntryOf(blacklistCache, a)
                    \/ tpc = "setBlacklist" /\ SameAddress(a, req.txOrigin)
               ELSE /\ now' = now + 1
                    /\ EntryOf(blacklistCache, a).expiresAt = now'
    \* an address not blacklisted becomes so only by setBlacklist
    /\ \A a \in Origins :
           (~Held(blacklistCache, a) /\ Held(blacklistCache', a)) =>
               tpc = "setBlacklist" /\ SameAddress(a, req.txOrigin)
    \* a call whose origin is blacklisted ends at the check
    /\ (tpc = "isBlacklisted" /\ tpc' # tpc
            /\ Held(blacklistCache, req.txOrigin)) =>
           /\ tpc' = "done"
           /\ outcome'.kind = "thrown" /\ outcome'.at = "isBlacklisted"
           /\ rfqRequests' = 0
    \* the restrictions and the blacklist do not touch each other
    /\ (restrictHash' # restrictHash \/ pendingHdel' # pendingHdel
            \/ pendingDel' # pendingDel) => UNCHANGED blacklistCache
    /\ blacklistCache' # blacklistCache => UNCHANGED restrictHash

\* C15: when setBlacklist is done, isBlacklisted is true of the origin in
\* every letter case and stays so until the time to live is over, and a call
\* with such an origin ends at the blacklist check; when the time to live is
\* over without a new insertion isBlacklisted is false again; a change of
\* the restriction hash leaves the blacklist as it is, and a change of the
\* blacklist leaves the restriction hash as it is.
C15_BlacklistLifecycle == []C15_EntryWithinTTL /\ [][C15_Step]_vars

\* a call with the lower-case origin is rejected at the check, some time
\* after a call with the upper-case origin was blacklisted, with a maker
\* restricted in between
C15_Witness ==
    /\ tpc = "done" /\ outcome.kind = "thrown"
    /\ outcome.at = "isBlacklisted"
    /\ req.txOrigin = Origina1
    /\ Held(blacklistCache, OriginA1)
    /\ EntryOf(blacklistCache, OriginA1).expiresAt
           < now + HASHFLOW_BLACKLIST_TTL_S
    /\ restrictHash # EmptyHash
(***************************************************************************)
(* Claims on pool identifiers.                                             *)
(***************************************************************************)
\* the makers with levels in the cache, and those with a price entry
CachedMakers == {cachedLevels[i].mm : i \in 1..Len(cachedLevels)}
PricedMakers == {poolPrices.prices[i].data.mm : i \in 1..Len(poolPrices.prices)}

\* the maker id getPricesVolume takes out of a pool identifier
ExtractedMaker(p) ==
    CHOOSE m \in marketMakersToUse(
                     <<p>>,
                     getIdentifierPrefix(normalizeToken(srcTok.address),
                                         normalizeToken(destTok.address))) :
        TRUE

\* the set of the pool identifiers returned
ReturnedIdentifiers == {poolIdentifiers[i] : i \in 1..Len(poolIdentifiers)}

\* the cached makers getPoolIdentifiers returned an identifier for
ListedMakers ==
    {m \in CachedMakers :
        getPoolIdentifier(normalizeToken(srcTok.address),
                          normalizeToken(destTok.address), m)
            \in ReturnedIdentifiers}

\* every pair in the cache is published in lower case
PairsInLowerCase ==
    \A i \in 1..Len(cachedLevels) :
        \A j \in 1..Len(cachedLevels[i].entries) :
            LET pair == cachedLevels[i].entries[j].pair
            IN  /\ pair.baseToken = toLowerCase(pair.baseToken)
                /\ pair.quoteToken = toLowerCase(pair.quoteToken)

\* C11: every pool identifier getPoolIdentifiers returns gives back, with
\* the identifier prefix stripped, a maker id that is a key of the cached
\* levels, whatever the letter case of the maker id; so getPricesVolume with
\* the identifiers as limitPools prices exactly the makers listed (the pairs
\* being published in lower case).
C11_IdentifierRoundTrip ==
    /\ gpc \in {"listed", "priced"} =>
          \A i \in 1..Len(poolIdentifiers) :
              ExtractedMaker(poolIdentifiers[i]) \in CachedMakers
    /\ (gpc = "priced" /\ limitPoolsArg # undefined /\ PairsInLowerCase) =>
          PricedMakers = ListedMakers

\* C17: for the same cached levels and the same ordered pair, every maker
\* (of a lower-case id) that getPoolIdentifiers returns an identifier for
\* gets a price entry from getPricesVolume, with the identifiers as
\* limitPools or without limitPools, whatever the letter case of the tokens
\* of the published pair.
C17_ListedMakersArePriced ==
    gpc = "priced" =>
        \A m \in ListedMakers : m = toLowerCase(m) => m \in PricedMakers

====
